---- MODULE Spec2Model ----
(***************************************************************************)
(* Model of cli/src/key.rs of sawtooth-sabre: new_signer and               *)
(* load_signing_key.  One behaviour is one call of new_signer in one       *)
(* environment (argument, USER, OS user database, home directory and       *)
(* filesystem), executed statement by statement.                           *)
(*                                                                         *)
(* Strings and paths are sequences of characters.  To keep the values      *)
(* short, the fixed literals ".sawtooth", "keys" and ".priv" are written   *)
(* as one element each.  File contents are sequences of bytes drawn from   *)
(* Alphabet; "LF" is the newline byte and "BAD" a byte that is not valid   *)
(* UTF-8.  The alphabet has no carriage return.                            *)
(***************************************************************************)
EXTENDS FiniteSets, Integers, Sequences, TLC

VARIABLES
    key_name,              \* argument of new_signer: Option<&str>
    envUser,               \* std::env::var("USER"): Option of a string
    osUser,                \* users::get_current_username(): Option
    homeDir,               \* dirs::home_dir(): Option of a path
    fs,                    \* filesystem: path -> file
    pc,                    \* position in new_signer / load_signing_key
    username,              \* local `username`
    private_key_filename,  \* local `private_key_filename`
    f,                     \* local `f`: the bytes behind the open File
    contents,              \* local `contents`
    key_str,               \* local `key_str`
    private_key,           \* local `private_key` of new_signer
    result,                \* value returned by new_signer
    calls                  \* library calls made so far, in order

vars == <<key_name, envUser, osUser, homeDir, fs, pc, username,
          private_key_filename, f, contents, key_str, private_key,
          result, calls>>

-----------------------------------------------------------------------------
(* Bounds of the explored input space *)

MaxLen == 4

-----------------------------------------------------------------------------
(* Option and Result *)

None == <<>>
Some(x) == <<x>>

Ok(v) == [tag |-> "Ok", v |-> v]
Err(e) == [tag |-> "Err", e |-> e]
Pending == [tag |-> "Pending"]

-----------------------------------------------------------------------------
(* CliError values built by key.rs *)

UserError(msg) == [kind |-> "UserError", msg |-> msg]
SigningError(msg) == [kind |-> "SigningError", msg |-> msg]

\* `?` on an io::Result: the error is converted with From<io::Error>
IoError(e) == [kind |-> "IoError", msg |-> <<e>>]

UsernameMsg == <<"Could not load signing key: unable to determine username">>
HomeMsg == <<"Could not load signing key: unable to determine home directory">>
NoSuchKeyFileMsg(path) == <<"No such key file: ", path>>
EmptyKeyFileMsg(path) == <<"Empty key file: ", path>>
ParseMsg(path, err) == <<"Unable to parse private key file ", path, ": ", err, " ">>

-----------------------------------------------------------------------------
(* Paths: PathBuf::push and format!("{}.priv", username) *)

IsAbsolute(p) == Len(p) > 0 /\ p[1] = "/"

\* PathBuf::push: an absolute component replaces the path; otherwise the
\* component is appended after a separator.
push(p, c) ==
    IF IsAbsolute(c) THEN c
    ELSE IF Len(p) > 0 /\ p[Len(p)] = "/" THEN p \o c
    ELSE p \o <<"/">> \o c

priv_name(user) == user \o <<".priv">>

key_file_path_nokeys(home, user) ==
    push(push(home, <<".sawtooth">>), priv_name(user))

key_file_path(home, user) ==
    push(push(push(home, <<".sawtooth">>), <<"keys">>), priv_name(user))

-----------------------------------------------------------------------------
(* Username resolution, lines 59-67 *)

\* The plausible slips used to test the properties below.
resolve_username_default(name, user, os) ==
    IF name # None THEN Ok(name[1])
    ELSE IF os # None THEN Ok(os[1])
    ELSE Ok(<<>>)

resolve_username_varerror(name, user, os) ==
    IF name # None THEN Ok(name[1])
    ELSE IF os # None THEN Ok(os[1])
    ELSE Err([kind |-> "VarError", msg |-> <<"NotPresent">>])

\* name.map(String::from)
\*     .ok_or_else(|| env::var("USER"))
\*     .or_else(|_| get_current_username().ok_or(0))
\*     .map_err(|_| CliError::UserError(..))
\* ok_or_else turns None into Err(env::var("USER")); or_else then discards
\* that error value, whatever it holds, and asks the OS.
resolve_username(name, user, os) ==
    IF name # None THEN Ok(name[1])
    ELSE IF os # None THEN Ok(os[1])
    ELSE Err(UserError(UsernameMsg))

-----------------------------------------------------------------------------
(* Files *)

Missing == [exists |-> FALSE, readable |-> FALSE, bytes |-> <<>>]
File(readable, bytes) == [exists |-> TRUE, readable |-> readable, bytes |-> bytes]

Lookup(files, p) == IF p \in DOMAIN files THEN files[p] ELSE Missing

\* File::open(&private_key_filename)
file_open(file) ==
    IF file.exists /\ file.readable THEN Ok(file.bytes)
    ELSE IF file.exists THEN Err("PermissionDenied")
    ELSE Err("NotFound")

\* f.read_to_string(&mut contents): fails unless the whole file is UTF-8
read_to_string(bytes) ==
    IF \E i \in 1..Len(bytes) : bytes[i] = "BAD" THEN Err("InvalidData")
    ELSE Ok(bytes)

\* Position of the first newline, or Len+1 when there is none
FirstLF(s) ==
    IF \E i \in 1..Len(s) : s[i] = "LF"
    THEN CHOOSE i \in 1..Len(s) : s[i] = "LF" /\ \A j \in 1..(i-1) : s[j] # "LF"
    ELSE Len(s) + 1

LastLineStart(s) ==
    LET n == IF Len(s) > 0 /\ s[Len(s)] = "LF" THEN Len(s) - 1 ELSE Len(s)
        lfs == {i \in 1..n : s[i] = "LF"}
    IN  [from |-> IF lfs = {} THEN 1 ELSE 1 + CHOOSE i \in lfs : \A j \in lfs : j <= i,
         to |-> n]

lines_next_last(s) ==
    IF s = <<>> THEN None
    ELSE Some(SubSeq(s, LastLineStart(s).from, LastLineStart(s).to))

lines_next_or_empty(s) ==
    IF s = <<>> THEN Some(<<>>) ELSE Some(SubSeq(s, 1, FirstLF(s) - 1))

\* contents.lines().next()
lines_next(s) ==
    IF s = <<>> THEN None ELSE Some(SubSeq(s, 1, FirstLF(s) - 1))

-----------------------------------------------------------------------------
(* PrivateKey::new_from_hex: hex decoding *)

HexDigits == {"1", "a", "A"}

HexVal(c) == CASE c = "1" -> 1 [] c = "a" -> 10 [] c = "A" -> 10 [] OTHER -> 0

new_from_hex_lenient(s) ==
    IF Len(s) % 2 # 0 THEN Err("OddLength")
    ELSE Ok([i \in 1..(Len(s) \div 2) |-> 16 * HexVal(s[2*i-1]) + HexVal(s[2*i])])

new_from_hex_swapped(s) ==
    IF Len(s) % 2 # 0 THEN Err("OddLength")
    ELSE IF \E i \in 1..Len(s) : s[i] \notin HexDigits THEN Err("InvalidDigit")
    ELSE Ok([i \in 1..(Len(s) \div 2) |-> 16 * HexVal(s[2*i]) + HexVal(s[2*i-1])])

new_from_hex(s) ==
    IF Len(s) % 2 # 0 THEN Err("OddLength")
    ELSE IF \E i \in 1..Len(s) : s[i] \notin HexDigits THEN Err("InvalidDigit")
    ELSE Ok([i \in 1..(Len(s) \div 2) |-> 16 * HexVal(s[2*i-1]) + HexVal(s[2*i])])

\* context.new_signer(private_key)
context_new_signer(key) == [context |-> "secp256k1", key |-> key]

-----------------------------------------------------------------------------
(* load_signing_key from the existence check on, lines 82-110, as one      *)
(* function of the path and the file found there.                          *)

load_key_file(path, file) ==
    IF ~file.exists THEN Err(UserError(NoSuchKeyFileMsg(path)))
    ELSE IF file_open(file).tag = "Err" THEN Err(IoError(file_open(file).e))
    ELSE IF read_to_string(file_open(file).v).tag = "Err"
         THEN Err(IoError(read_to_string(file_open(file).v).e))
    ELSE LET k == lines_next(read_to_string(file_open(file).v).v) IN
         IF k = None THEN Err(UserError(EmptyKeyFileMsg(path)))
         ELSE IF new_from_hex(k[1]).tag = "Err"
              THEN Err(SigningError(ParseMsg(path, new_from_hex(k[1]).e)))
         ELSE Ok(new_from_hex(k[1]).v)

-----------------------------------------------------------------------------
(* Inputs *)

Alphabet == {"1", "a", "A", "g", "LF", "BAD"}

Contents == UNION {[1..n -> Alphabet] : n \in 0..MaxLen}

Home == <<"/", "h">>

NameB == <<"b">>
NameC == <<"c">>
NameAbs == <<"/", "a">>

\* {home}/.sawtooth/keys/{identity}.priv, as text
KeyFilePathText(home, identity) ==
    home \o <<"/", ".sawtooth", "/", "keys", "/">> \o identity \o <<".priv">>

Paths ==
    {KeyFilePathText(Home, n) : n \in {NameB, NameC, NameAbs}}
        \cup {priv_name(NameAbs)}

SampleFiles ==
    { Missing,
      File(FALSE, <<"1", "a", "LF">>),
      File(TRUE, <<>>),
      File(TRUE, <<"LF">>),
      File(TRUE, <<"1", "a", "LF">>),
      File(TRUE, <<"g", "LF">>) }

Locals0 ==
    /\ pc = "new_signer"
    /\ username = <<>>
    /\ private_key_filename = <<>>
    /\ f = <<>>
    /\ contents = <<>>
    /\ key_str = None
    /\ private_key = <<>>
    /\ result = Pending
    /\ calls = <<>>

\* Every combination of argument and environment over a few sample files
InitEnvironments ==
    /\ key_name \in {None, Some(NameB), Some(NameAbs)}
    /\ envUser \in {None, Some(NameB)}
    /\ osUser \in {None, Some(NameB), Some(NameC)}
    /\ homeDir \in {None, Some(Home)}
    /\ fs \in [Paths -> SampleFiles]
    /\ Locals0

\* One key file with every content up to MaxLen bytes
InitKeyFiles ==
    /\ key_name = Some(NameB)
    /\ envUser = None
    /\ osUser = None
    /\ homeDir = Some(Home)
    /\ \E r \in BOOLEAN, b \in Contents :
          fs = [p \in Paths |->
                  IF p = KeyFilePathText(Home, NameB) THEN File(r, b) ELSE Missing]
    /\ Locals0

Init == InitEnvironments \/ InitKeyFiles

-----------------------------------------------------------------------------
(* Steps of new_signer *)

Env == <<key_name, envUser, osUser, homeDir, fs>>

Return(r) == result' = r /\ pc' = "done"

\* line 31: Secp256k1Context::new(), then the call of load_signing_key
CreateContext ==
    /\ pc = "new_signer"
    /\ calls' = Append(calls, "Secp256k1Context::new")
    /\ pc' = "username"
    /\ UNCHANGED <<Env, username, private_key_filename, f, contents, key_str,
                   private_key, result>>

\* lines 59-67
ResolveUsername ==
    /\ pc = "username"
    /\ calls' = IF key_name # None THEN calls
                ELSE calls \o <<"env::var", "get_current_username">>
    /\ LET r == resolve_username(key_name, envUser, osUser) IN
         IF r.tag = "Ok"
         THEN username' = r.v /\ pc' = "home" /\ UNCHANGED result
         ELSE Return(Err(r.e)) /\ UNCHANGED username
    /\ UNCHANGED <<Env, private_key_filename, f, contents, key_str, private_key>>

\* lines 69-80
BuildKeyFilename ==
    /\ pc = "home"
    /\ calls' = Append(calls, "dirs::home_dir")
    /\ IF homeDir = None
       THEN Return(Err(UserError(HomeMsg))) /\ UNCHANGED private_key_filename
       ELSE /\ private_key_filename' = key_file_path(homeDir[1], username)
            /\ pc' = "exists"
            /\ UNCHANGED result
    /\ UNCHANGED <<Env, username, f, contents, key_str, private_key>>

\* lines 82-87
CheckExists ==
    /\ pc = "exists"
    /\ calls' = Append(calls, "Path::exists")
    /\ IF ~Lookup(fs, private_key_filename).exists
       THEN Return(Err(UserError(NoSuchKeyFileMsg(private_key_filename))))
       ELSE pc' = "open" /\ UNCHANGED result
    /\ UNCHANGED <<Env, username, private_key_filename, f, contents, key_str,
                   private_key>>

\* line 89
OpenFile ==
    /\ pc = "open"
    /\ calls' = Append(calls, "File::open")
    /\ LET r == file_open(Lookup(fs, private_key_filename)) IN
         IF r.tag = "Err"
         THEN Return(Err(IoError(r.e))) /\ UNCHANGED f
         ELSE f' = r.v /\ pc' = "read" /\ UNCHANGED result
    /\ UNCHANGED <<Env, username, private_key_filename, contents, key_str,
                   private_key>>

\* lines 91-92
ReadContents ==
    /\ pc = "read"
    /\ calls' = Append(calls, "read_to_string")
    /\ LET r == read_to_string(f) IN
         IF r.tag = "Err"
         THEN Return(Err(IoError(r.e))) /\ UNCHANGED contents
         ELSE contents' = r.v /\ pc' = "lines" /\ UNCHANGED result
    /\ UNCHANGED <<Env, username, private_key_filename, f, key_str, private_key>>

\* lines 94-102
TakeFirstLine ==
    /\ pc = "lines"
    /\ LET k == lines_next(contents) IN
         IF k = None
         THEN Return(Err(UserError(EmptyKeyFileMsg(private_key_filename))))
              /\ UNCHANGED key_str
         ELSE key_str' = k /\ pc' = "parse" /\ UNCHANGED result
    /\ UNCHANGED <<Env, username, private_key_filename, f, contents, private_key,
                   calls>>

\* lines 104-110, and the `?` of line 32
ParseKey ==
    /\ pc = "parse"
    /\ calls' = Append(calls, "PrivateKey::new_from_hex")
    /\ LET r == new_from_hex(key_str[1]) IN
         IF r.tag = "Err"
         THEN Return(Err(SigningError(ParseMsg(private_key_filename, r.e))))
              /\ UNCHANGED private_key
         ELSE private_key' = r.v /\ pc' = "signer" /\ UNCHANGED result
    /\ UNCHANGED <<Env, username, private_key_filename, f, contents, key_str>>

\* line 33
MakeSigner ==
    /\ pc = "signer"
    /\ calls' = Append(calls, "Context::new_signer")
    /\ Return(Ok(context_new_signer(private_key)))
    /\ UNCHANGED <<Env, username, private_key_filename, f, contents, key_str,
                   private_key>>

Next ==
    \/ CreateContext
    \/ ResolveUsername
    \/ BuildKeyFilename
    \/ CheckExists
    \/ OpenFile
    \/ ReadContents
    \/ TakeFirstLine
    \/ ParseKey
    \/ MakeSigner

Spec == Init /\ [][Next]_vars

-----------------------------------------------------------------------------
(* Vocabulary of the properties.  These are written independently of the   *)
(* operators above, from the wording of the specification.                 *)

Done == pc = "done"

Made(c) == \E i \in 1..Len(calls) : calls[i] = c

IsErr == result.tag = "Err"
IsOk == result.tag = "Ok"

\* The file found at the path the loader built
PathBuilt == private_key_filename # <<>>
KeyFile == Lookup(fs, private_key_filename)

RECURSIVE UpToNewline(_)
UpToNewline(s) ==
    IF s = <<>> \/ Head(s) = "LF" THEN <<>>
    ELSE <<Head(s)>> \o UpToNewline(Tail(s))

IsUtf8(s) == "BAD" \notin {s[i] : i \in 1..Len(s)}

Nibble(c) == IF c = "1" THEN 1 ELSE 10

RECURSIVE IsHexText(_)
IsHexText(s) ==
    \/ s = <<>>
    \/ /\ Len(s) >= 2
       /\ s[1] \in {"1", "a", "A"}
       /\ s[2] \in {"1", "a", "A"}
       /\ IsHexText(Tail(Tail(s)))

RECURSIVE KeyBytes(_)
KeyBytes(s) ==
    IF s = <<>> THEN <<>>
    ELSE <<Nibble(s[1]) * 16 + Nibble(s[2])>> \o KeyBytes(Tail(Tail(s)))

IdentityUnresolved == UserError(UsernameMsg)
HomeDirectoryUnresolved == UserError(HomeMsg)
KeyFileNotFound(path) == UserError(<<"No such key file: ", path>>)
EmptyKeyFile(path) == UserError(<<"Empty key file: ", path>>)

InTaxonomy(e) ==
    \/ e = IdentityUnresolved
    \/ e = HomeDirectoryUnresolved
    \/ e.kind = "UserError" /\ e.msg[1] \in {"No such key file: ", "Empty key file: "}
    \/ e.kind = "SigningError"

\* What a caller can tell apart: the key on success, the error kind on failure
OutcomeOfResult == IF IsOk THEN <<"Ok", result.v.key>> ELSE <<"Err", result.e.kind>>
OutcomeOfLoad(r) == IF r.tag = "Ok" THEN <<"Ok", r.v>> ELSE <<"Err", r.e.kind>>

Trailers == {<<>>, <<"g">>, <<"LF", "g">>, <<"g", "LF", "1", "a">>, <<"BAD">>}

-----------------------------------------------------------------------------
\* C1: with no explicit name and USER set, the identity in the key file path
\* is the value of USER; the OS lookup decides only when USER is unset.
C1_UserVariableTakesPriority ==
    (Done /\ key_name = None /\ envUser # None) =>
        /\ ~(IsErr /\ result.e = IdentityUnresolved)
        /\ PathBuilt =>
             private_key_filename = KeyFilePathText(homeDir[1], envUser[1])

-----------------------------------------------------------------------------
\* C2 as stated: for every explicit name n and home h, if h/.sawtooth/keys/n.priv
\* exists and its first line is a hex-encoded key k, new_signer returns Ok with a
\* signer bound to k.
C2_Pre ==
    /\ Done
    /\ key_name # None
    /\ homeDir # None
    /\ LET file == Lookup(fs, KeyFilePathText(homeDir[1], key_name[1])) IN
         /\ file.exists
         /\ UpToNewline(file.bytes) # <<>>
         /\ IsHexText(UpToNewline(file.bytes))

C2_Post ==
    LET file == Lookup(fs, KeyFilePathText(homeDir[1], key_name[1])) IN
      /\ IsOk
      /\ result.v.key = KeyBytes(UpToNewline(file.bytes))

C2_AsStated == C2_Pre => C2_Post

\* C2 amended: the same, for a relative name and a key file that can be opened
\* and whose whole content is valid UTF-8.
C2_Readable ==
    LET file == Lookup(fs, KeyFilePathText(homeDir[1], key_name[1])) IN
      /\ ~IsAbsolute(key_name[1])
      /\ file.readable
      /\ IsUtf8(file.bytes)

C2_SignerBoundToFirstLineKey == (C2_Pre /\ C2_Readable) => C2_Post

C2_Witness ==
    /\ C2_Pre
    /\ C2_Readable
    /\ IsOk
    /\ result.v.key = <<26>>
    /\ Len(KeyFile.bytes) = 4

-----------------------------------------------------------------------------
\* C3: whenever the resolved key file is missing, has no lines, or has an empty
\* first line, new_signer returns an error and no signer is constructed.
C3_NoSignerWithoutNonEmptyLine ==
    (/\ Done
     /\ PathBuilt
     /\ \/ ~KeyFile.exists
        \/ KeyFile.bytes = <<>>
        \/ UpToNewline(KeyFile.bytes) = <<>>)
    => (IsErr /\ ~Made("Context::new_signer"))

-----------------------------------------------------------------------------
\* C4 as stated: every failure of new_signer is one of the five taxonomy errors.
C4_AsStated == (Done /\ IsErr) => InTaxonomy(result.e)

\* C4 amended: every failure is one of the five taxonomy errors, or the I/O
\* error of opening or reading a key file that passed the existence check.
C4_TaxonomyOrIoError ==
    (Done /\ IsErr) =>
        \/ InTaxonomy(result.e)
        \/ /\ result.e.kind = "IoError"
           /\ PathBuilt
           /\ KeyFile.exists
           /\ Made("File::open")

C4_Witness ==
    /\ Done
    /\ IsErr
    /\ result.e.kind = "IoError"
    /\ Made("read_to_string")

-----------------------------------------------------------------------------
-----------------------------------------------------------------------------
\* C6 as stated: identity and home resolve and {home}/.sawtooth/keys/{identity}.priv
\* does not exist: the call fails with the not-found error naming that path.
C6_Pre ==
    /\ Done
    /\ username # <<>>
    /\ homeDir # None
    /\ ~Lookup(fs, KeyFilePathText(homeDir[1], username)).exists

C6_Post ==
    /\ private_key_filename = KeyFilePathText(homeDir[1], username)
    /\ result = Err(KeyFileNotFound(KeyFilePathText(homeDir[1], username)))
    /\ ~Made("File::open")
    /\ ~Made("Context::new_signer")

C6_AsStated == C6_Pre => C6_Post

\* C6 amended: the same, for an identity that is not an absolute path.
C6_NotFoundNamesThePath == (C6_Pre /\ ~IsAbsolute(username)) => C6_Post

C6_Witness ==
    /\ C6_Pre
    /\ ~IsAbsolute(username)
    /\ key_name = None
    /\ IsErr

-----------------------------------------------------------------------------
\* C7 as stated: any two key files with the same first line give the same
\* result (same key, or same error kind), whatever follows the first line.
C7_Pre ==
    /\ Done
    /\ PathBuilt
    /\ KeyFile.exists
    /\ KeyFile.bytes # <<>>

C7_AsStated ==
    C7_Pre =>
        \A r \in BOOLEAN, t \in Trailers :
            OutcomeOfLoad(load_key_file(private_key_filename,
                File(r, UpToNewline(KeyFile.bytes) \o <<"LF">> \o t)))
              = OutcomeOfResult

\* C7 amended: any two key files that can be opened, are valid UTF-8 throughout
\* and have the same first line give the same result.
C7_FirstLineDecides ==
    (C7_Pre /\ KeyFile.readable /\ IsUtf8(KeyFile.bytes)) =>
        \A t \in {u \in Trailers : IsUtf8(u)} :
            OutcomeOfLoad(load_key_file(private_key_filename,
                File(TRUE, UpToNewline(KeyFile.bytes) \o <<"LF">> \o t)))
              = OutcomeOfResult

C7_Witness ==
    /\ C7_Pre
    /\ IsOk
    /\ KeyFile.bytes = <<"a", "1", "LF", "g">>

-----------------------------------------------------------------------------
\* C8 as stated: the key file exists and its first line is not valid hex: the
\* call fails with the SigningError carrying the decode error, without a signer.
C8_Pre ==
    /\ Done
    /\ PathBuilt
    /\ KeyFile.exists
    /\ KeyFile.bytes # <<>>
    /\ ~IsHexText(UpToNewline(KeyFile.bytes))

C8_Post ==
    /\ IsErr
    /\ result.e.kind = "SigningError"
    /\ \E d \in {"OddLength", "InvalidDigit"} :
          result.e.msg = ParseMsg(private_key_filename, d)
    /\ ~Made("Context::new_signer")

C8_AsStated == C8_Pre => C8_Post

\* C8 amended: the same, for a key file that can be opened and whose whole
\* content is valid UTF-8.
C8_ParseErrorReported ==
    (C8_Pre /\ KeyFile.readable /\ IsUtf8(KeyFile.bytes)) => C8_Post

C8_Witness ==
    /\ C8_Pre
    /\ IsErr
    /\ result.e.kind = "SigningError"
    /\ UpToNewline(KeyFile.bytes) = <<"1", "g">>

-----------------------------------------------------------------------------
\* C9 as stated: the key file exists and is zero-length: the call fails with
\* UserError "Empty key file: <path>" and the hex parser is never invoked.
C9_Pre ==
    /\ Done
    /\ PathBuilt
    /\ KeyFile.exists
    /\ KeyFile.bytes = <<>>

C9_Post ==
    /\ result = Err(EmptyKeyFile(private_key_filename))
    /\ ~Made("PrivateKey::new_from_hex")

C9_AsStated == C9_Pre => C9_Post

\* C9 amended: the same, for a key file that can be opened.
C9_EmptyKeyFile == (C9_Pre /\ KeyFile.readable) => C9_Post

C9_Witness ==
    /\ C9_Pre
    /\ KeyFile.readable
    /\ IsErr
    /\ Made("read_to_string")

-----------------------------------------------------------------------------
\* C10: when the home directory or the USER-derived username is needed and
\* cannot be retrieved, load_signing_key returns CliError::VarError.
C10_VarErrorReturned ==
    (/\ Done
     /\ \/ key_name = None /\ envUser = None /\ osUser = None
        \/ username # <<>> /\ homeDir = None)
    => (IsErr /\ result.e.kind = "VarError")

====
